---------------------------- MODULE Spec2Model ----------------------------
(***************************************************************************)
(* Model of the LiqPay payment-parameter schemas (src/schemas.ts) and of   *)
(* the validate-then-sign pipeline that consumes them (README.md).         *)
(*                                                                         *)
(* JavaScript values are records tagged by their typeof; a string is the   *)
(* sequence of its UTF-16 code units (an ASCII unit is written as the      *)
(* character itself, any other unit as "uXXXX"); a number is a reduced     *)
(* fraction num/den, or NaN.  The zod operators follow zod 3, the version  *)
(* whose API (z.nativeEnum, the default import) the source uses.           *)
(***************************************************************************)
EXTENDS Integers, Sequences, FiniteSets, TLC

VARIABLES
    env,        \* process.env: LIQPAY_PUBLIC_KEY, LIQPAY_PRIVATE_KEY, URL
    pc,         \* position of the current call in the pipeline
    params,     \* the caller's raw params object
    parsed,     \* result of the schema's safeParse(params)
    error,      \* the error the call threw, "none" if none
    data,       \* base64 data string, once produced
    signature,  \* signature string, once produced
    request     \* request body handed to the gateway, once sent

vars == <<env, pc, params, parsed, error, data, signature, request>>

----------------------------------------------------------------------------
(* JavaScript values *)

Undefined == [t |-> "undefined"]
Null == [t |-> "null"]
Bool(b) == [t |-> "boolean", b |-> b]
Str(s) == [t |-> "string", s |-> s]
NaN == [t |-> "number", nan |-> TRUE, num |-> 0, den |-> 1]

RECURSIVE GCD(_, _)
GCD(a, b) == IF b = 0 THEN a ELSE GCD(b, a % b)

Abs(n) == IF n < 0 THEN -n ELSE n

\* the number n/d (d > 0), reduced
Num(n, d) ==
    LET g == GCD(Abs(n), d)
    IN [t |-> "number", nan |-> FALSE, num |-> n \div g, den |-> d \div g]

IntNum(n) == Num(n, 1)

isNaN(v) == v.t = "number" /\ v.nan
NumberIsInteger(v) == v.t = "number" /\ ~v.nan /\ v.den = 1
\* v >= n and v <= n for a number v that is not NaN and an integer n
NumGE(v, n) == v.num >= n * v.den
NumLE(v, n) == v.num <= n * v.den

----------------------------------------------------------------------------
(* Number(value) for a string value: ECMAScript StringToNumber.  Modelled: *)
(* white space is trimmed, the empty string is 0, an optional sign, then   *)
(* decimal digits with an optional fraction; anything else is NaN.  (The   *)
(* exponent, radix-prefix and Infinity forms use characters outside the    *)
(* alphabet of the inputs drawn below.)                                    *)

WhiteSpace == {" ", "\t", "\n"}
DigitValue == [c \in {"0", "1", "2", "3", "4", "5", "6", "7", "8", "9"} |->
    CASE c = "0" -> 0 [] c = "1" -> 1 [] c = "2" -> 2 [] c = "3" -> 3
      [] c = "4" -> 4 [] c = "5" -> 5 [] c = "6" -> 6 [] c = "7" -> 7
      [] c = "8" -> 8 [] c = "9" -> 9]
IsDigit(c) == c \in DOMAIN DigitValue

RECURSIVE TrimStart(_)
TrimStart(s) ==
    IF s # <<>> /\ Head(s) \in WhiteSpace THEN TrimStart(Tail(s)) ELSE s

RECURSIVE TrimEnd(_)
TrimEnd(s) ==
    IF s # <<>> /\ s[Len(s)] \in WhiteSpace
    THEN TrimEnd(SubSeq(s, 1, Len(s) - 1)) ELSE s

RECURSIVE DigitsValue(_)
DigitsValue(s) ==
    IF s = <<>> THEN 0
    ELSE 10 * DigitsValue(SubSeq(s, 1, Len(s) - 1)) + DigitValue[s[Len(s)]]

RECURSIVE Pow10(_)
Pow10(k) == IF k = 0 THEN 1 ELSE 10 * Pow10(k - 1)

\* the position of the first "." of body, Len(body) + 1 when it has none
RECURSIVE FirstDot(_, _)
FirstDot(body, i) ==
    IF i > Len(body) \/ body[i] = "." THEN i ELSE FirstDot(body, i + 1)

\* the value of the decimal literal whole.frac under sign, NaN when it is
\* not well formed
DecimalValue(sign, whole, frac) ==
    IF /\ \A i \in 1..Len(whole) : IsDigit(whole[i])
       /\ \A i \in 1..Len(frac) : IsDigit(frac[i])
       /\ Len(whole) + Len(frac) >= 1
    THEN Num(sign * (DigitsValue(whole) * Pow10(Len(frac)) + DigitsValue(frac)),
             Pow10(Len(frac)))
    ELSE NaN

SplitToNumber(sign, body, dot) ==
    DecimalValue(sign, SubSeq(body, 1, dot - 1), SubSeq(body, dot + 1, Len(body)))

TrimmedToNumber(t) ==
    IF t = <<>> THEN IntNum(0)
    ELSE SplitToNumber(IF Head(t) = "-" THEN -1 ELSE 1,
                       IF Head(t) \in {"+", "-"} THEN Tail(t) ELSE t,
                       FirstDot(IF Head(t) \in {"+", "-"} THEN Tail(t) ELSE t, 1))

StringToNumber(s) == TrimmedToNumber(TrimEnd(TrimStart(s)))

----------------------------------------------------------------------------
(* zod parse results.  A schema's _parse returns a status (valid, dirty:   *)
(* issues were raised but a value was still produced, aborted), the value  *)
(* and the issue codes it raised.                                          *)

OK(v) == [status |-> "valid", value |-> v, issues |-> <<>>]
DIRTY(v, issues) == [status |-> "dirty", value |-> v, issues |-> issues]
INVALID(issues) == [status |-> "aborted", value |-> Undefined, issues |-> issues]

\* z.string()
ZodString(raw) ==
    IF raw.t = "string" THEN OK(raw) ELSE INVALID(<<"invalid_type">>)

\* z.number(): typeof number, NaN refused
ZodNumber(raw) ==
    IF raw.t = "number" /\ ~raw.nan THEN OK(raw) ELSE INVALID(<<"invalid_type">>)

\* schema.default(d): the value the inner schema is given to parse;
\* undefined is replaced by d, which is parsed like any other value
ZodDefault(d, raw) == IF raw = Undefined THEN d ELSE raw

\* schema.refine(check), given the inner schema's result and whether the
\* check passes on its value: skipped when the inner parse aborted; a
\* failed check raises a non-fatal "custom" issue and keeps the value
ZodRefine(inner, passes) ==
    IF inner.status = "aborted" THEN inner
    ELSE IF passes THEN inner
    ELSE DIRTY(inner.value, Append(inner.issues, "custom"))

\* z.union(options), given the options' results in order: the first valid
\* result wins; otherwise the first dirty result is returned with its own
\* issues, and only when every option aborted is a single invalid_union
\* issue raised
ZodUnion(results) ==
    LET valid == {i \in DOMAIN results : results[i].status = "valid"}
        dirty == {i \in DOMAIN results : results[i].status = "dirty"}
        First(S) == CHOOSE i \in S : \A j \in S : i <= j
    IN IF valid # {} THEN results[First(valid)]
       ELSE IF dirty # {} THEN results[First(dirty)]
       ELSE INVALID(<<"invalid_union">>)

\* z.nativeEnum(E) for a string enum E
ZodNativeEnum(members, raw) ==
    IF raw.t \notin {"string", "number"} THEN INVALID(<<"invalid_type">>)
    ELSE IF raw.t = "string" /\ raw.s \in members THEN OK(raw)
    ELSE INVALID(<<"invalid_enum_value">>)

\* the checks of a schema, given the issues they raised: none of them
\* aborts the parse
ZodChecks(raw, issues) ==
    IF issues = <<>> THEN OK(raw) ELSE DIRTY(raw, issues)

\* z.number().int().min(lo).max(hi)
ZodIntMinMax(lo, hi, raw) ==
    IF ZodNumber(raw).status = "aborted" THEN ZodNumber(raw)
    ELSE ZodChecks(raw,
            (IF NumberIsInteger(raw) THEN <<>> ELSE <<"invalid_type">>)
            \o (IF NumGE(raw, lo) THEN <<>> ELSE <<"too_small">>)
            \o (IF NumLE(raw, hi) THEN <<>> ELSE <<"too_big">>))

\* z.string().min(lo).max(hi): bounds on the number of UTF-16 code units
ZodStringMinMax(lo, hi, raw) ==
    IF ZodString(raw).status = "aborted" THEN ZodString(raw)
    ELSE ZodChecks(raw,
            (IF Len(raw.s) >= lo THEN <<>> ELSE <<"too_small">>)
            \o (IF Len(raw.s) <= hi THEN <<>> ELSE <<"too_big">>))

\* schema.transform(fn), given the inner schema's result and fn's value:
\* fn is applied to a valid result only
ZodTransform(inner, value) ==
    IF inner.status = "valid" THEN OK(value) ELSE inner

----------------------------------------------------------------------------
(* src/schemas.ts *)

\* const { LIQPAY_PUBLIC_KEY = '', URL } = process.env
LIQPAY_PUBLIC_KEY(e) ==
    IF e.LIQPAY_PUBLIC_KEY = Undefined THEN Str(<<>>) ELSE e.LIQPAY_PUBLIC_KEY
URL(e) == e.URL

\* the members of the four enums
PAY == <<"p", "a", "y">>
HOLD == <<"h", "o", "l", "d">>
SUBSCRIBE == <<"s", "u", "b", "s", "c", "r", "i", "b", "e">>
PAYDONATE == <<"p", "a", "y", "d", "o", "n", "a", "t", "e">>
PaymentAction == {PAY, HOLD, SUBSCRIBE, PAYDONATE}

UAH == <<"U", "A", "H">>
USD == <<"U", "S", "D">>
EUR == <<"E", "U", "R">>
PaymentCurrency == {UAH, USD, EUR}

UK == <<"u", "k">>
EN == <<"e", "n">>
PaymentLanguage == {UK, EN}

DAY == <<"d", "a", "y">>
MONTH == <<"m", "o", "n", "t", "h">>
YEAR == <<"y", "e", "a", "r">>
LiqpayPeriodicity == {DAY, MONTH, YEAR}

AmountMin == 1
AmountMax == 10000
AmountDefault == 20
VersionMin == 1
VersionMax == 3
VersionDefault == 3
ShortStringMin == 1
ShortStringMax == 200

\* mutant: the default description is the empty string
DefaultDescription_Empty == <<>>

DefaultDescription ==
    <<"u041F", "u043E", "u0436", "u0435", "u0440", "u0442", "u0432", "u0430", " ",
      "u043A", "u043E", "u043C", "u0430", "u043D", "u0434", "u0456", " ",
      "S", "o", "u", "l", "f", "u", "l">>
DefaultDateStart ==
    <<"2", "0", "2", "4", "-", "0", "1", "-", "0", "1", " ",
      "0", "0", ":", "0", "0", ":", "0", "0">>

\* String(v) inside a template literal, for the values URL can take
TemplateString(v) ==
    IF v = Undefined THEN <<"u", "n", "d", "e", "f", "i", "n", "e", "d">> ELSE v.s
\* `${URL}/donate/thankyou`
DefaultResultUrl(e) ==
    Str(TemplateString(URL(e))
        \o <<"/", "d", "o", "n", "a", "t", "e", "/",
             "t", "h", "a", "n", "k", "y", "o", "u">>)

\* Number(value) of the transform, which only ever sees a string
Number(value) ==
    IF value.t = "string" THEN StringToNumber(value.s) ELSE NaN

\* .refine((value) => !isNaN(value))
RefineNotNaN(transformed) ==
    ZodRefine(transformed, ~isNaN(transformed.value))

MaybeStringifiedNumberSchema(raw) ==
    ZodUnion(<<RefineNotNaN(ZodTransform(ZodString(raw), Number(raw))),
               ZodNumber(raw)>>)

\* mutant: the upper bound on the length is off by one
ShortStringSchema_OffByOne(raw) ==
    ZodStringMinMax(ShortStringMin, ShortStringMax + 1, raw)

ShortStringSchema(raw) == ZodStringMinMax(ShortStringMin, ShortStringMax, raw)

LiqpayAPIVersionSchema(raw) ==
    ZodIntMinMax(VersionMin, VersionMax, ZodDefault(IntNum(VersionDefault), raw))

\* mutant: the upper bound on the amount is exclusive
LiqpayAmountSchema_ExclusiveMax(raw) ==
    ZodIntMinMax(AmountMin, AmountMax - 1, ZodDefault(IntNum(AmountDefault), raw))

LiqpayAmountSchema(raw) ==
    ZodIntMinMax(AmountMin, AmountMax, ZodDefault(IntNum(AmountDefault), raw))

\* schema.safeParse(value).success
Success(result) == result.status = "valid"

\* mutant: the amount is normalized but its range is never checked
AmountField_NoRangeCheck(raw) ==
    MaybeStringifiedNumberSchema(ZodDefault(IntNum(AmountDefault), raw))

\* .refine((value) => LiqpayAmountSchema.safeParse(value).success)
RefineAmount(inner) ==
    ZodRefine(inner, Success(LiqpayAmountSchema(inner.value)))

AmountField(raw) ==
    RefineAmount(
        MaybeStringifiedNumberSchema(ZodDefault(IntNum(AmountDefault), raw)))

\* mutant: the currency is any string
CurrencyField_AnyString(raw) == ZodString(ZodDefault(Str(UAH), raw))

CurrencyField(raw) ==
    ZodNativeEnum(PaymentCurrency, ZodDefault(Str(UAH), raw))

ActionField(raw) ==
    ZodNativeEnum(PaymentAction, ZodDefault(Str(PAY), raw))

PeriodicityField(raw) ==
    ZodNativeEnum(LiqpayPeriodicity, ZodDefault(Str(MONTH), raw))

\* mutant: the public key is not compared with the configured one
PublicKeyField_NoCheck(e, raw) ==
    ZodString(ZodDefault(LIQPAY_PUBLIC_KEY(e), raw))

\* .refine((value) => value === LIQPAY_PUBLIC_KEY)
RefinePublicKey(e, inner) ==
    ZodRefine(inner, inner.value = LIQPAY_PUBLIC_KEY(e))

PublicKeyField(e, raw) ==
    RefinePublicKey(e, ZodString(ZodDefault(LIQPAY_PUBLIC_KEY(e), raw)))

\* .refine((value) => LiqpayAPIVersionSchema.safeParse(value).success)
RefineVersion(inner) ==
    ZodRefine(inner, Success(LiqpayAPIVersionSchema(inner.value)))

\* mutant: the version is checked against the amount's schema
VersionField_AmountRange(raw) ==
    RefineAmount(
        MaybeStringifiedNumberSchema(ZodDefault(IntNum(VersionDefault), raw)))

\* mutant: the version is normalized but its range is never checked
VersionField_NoRangeCheck(raw) ==
    MaybeStringifiedNumberSchema(ZodDefault(IntNum(VersionDefault), raw))

VersionField(raw) ==
    RefineVersion(
        MaybeStringifiedNumberSchema(ZodDefault(IntNum(VersionDefault), raw)))

DescriptionField(raw) ==
    ShortStringSchema(ZodDefault(Str(DefaultDescription), raw))

LanguageField(raw) ==
    ZodNativeEnum(PaymentLanguage, ZodDefault(Str(UK), raw))

DateStartField(raw) == ZodString(ZodDefault(Str(DefaultDateStart), raw))

ResultUrlField(e, raw) == ZodString(ZodDefault(DefaultResultUrl(e), raw))

\* the keys of each z.object shape, in declaration order
UserKeys == <<"amount", "currency", "action", "subscribe_periodicity">>
CNBKeys == UserKeys \o <<"public_key", "version", "description", "language",
                         "subscribe_date_start", "result_url">>

\* obj[key] of a JavaScript object: undefined when the key is absent
Get(obj, key) == IF key \in DOMAIN obj THEN obj[key] ELSE Undefined

\* the schema of one key of the shape, applied to the raw value
FieldParse(e, key, raw) ==
    CASE key = "amount" -> AmountField(raw)
      [] key = "currency" -> CurrencyField(raw)
      [] key = "action" -> ActionField(raw)
      [] key = "subscribe_periodicity" -> PeriodicityField(raw)
      [] key = "public_key" -> PublicKeyField(e, raw)
      [] key = "version" -> VersionField(raw)
      [] key = "description" -> DescriptionField(raw)
      [] key = "language" -> LanguageField(raw)
      [] key = "subscribe_date_start" -> DateStartField(raw)
      [] key = "result_url" -> ResultUrlField(e, raw)

\* the issues of the keys from position i on, each under its key's path
RECURSIVE ObjectIssues(_, _, _)
ObjectIssues(keys, results, i) ==
    IF i > Len(keys) THEN <<>>
    ELSE LET r == results[keys[i]]
         IN [j \in 1..Len(r.issues) |-> [path |-> keys[i], code |-> r.issues[j]]]
            \o ObjectIssues(keys, results, i + 1)

\* the parsed object, given every key's result and the issues collected
ObjectResult(results, issues) ==
    IF issues = <<>>
    THEN [success |-> TRUE,
          data |-> [k \in DOMAIN results |-> results[k].value],
          issues |-> <<>>]
    ELSE [success |-> FALSE, data |-> Undefined, issues |-> issues]

\* every key of the shape parsed, and the issues of all keys collected
ObjectParse(keys, results) ==
    ObjectResult(results, ObjectIssues(keys, results, 1))

\* mutant: the keys outside the shape are passed through
ZodObject_Passthrough(e, keys, obj) ==
    ObjectParse(keys,
        [k \in {keys[i] : i \in 1..Len(keys)} \cup DOMAIN obj |->
            IF k \in {keys[i] : i \in 1..Len(keys)}
            THEN FieldParse(e, k, Get(obj, k)) ELSE OK(obj[k])])

\* z.object(shape).safeParse(obj): every key of the shape is parsed, keys
\* outside the shape are stripped
ZodObject(e, keys, obj) ==
    ObjectParse(keys,
        [k \in {keys[i] : i \in 1..Len(keys)} |-> FieldParse(e, k, Get(obj, k))])

UserCNBSchema(e, obj) == ZodObject(e, UserKeys, obj)

CNBSchema(e, obj) == ZodObject(e, CNBKeys, obj)

----------------------------------------------------------------------------
(* The params a caller may assemble: objects that supply at most           *)
(* MaxSupplied keys, each with a value drawn from the samples of its key,  *)
(* and the parameter objects of the README's examples.                     *)

MaxSupplied == 2

\* a string of n code units
Filler(n) == [i \in 1..n |-> "x"]

ConfiguredKey == Str(<<"p", "u", "b", "_", "k", "e", "y">>)
WrongKey == Str(<<"w", "r", "o", "n", "g", "-", "k", "e", "y">>)

OtherDateStart ==
    Str(<<"2", "0", "2", "5", "-", "0", "6", "-", "0", "1", " ",
          "1", "2", ":", "0", "0", ":", "0", "0">>)
OtherResultUrl ==
    Str(<<"h", "t", "t", "p", "s", ":", "/", "/", "s", "h", "o", "p", ".",
          "e", "x", "a", "m", "p", "l", "e", "/", "o", "k">>)
OrderId == Str(<<"o", "r", "d", "e", "r", "-", "1">>)

NumericStrings ==
    {Str(<<>>), Str(<<"0">>), Str(<<"-", "5">>), Str(<<"1">>), Str(<<"3">>),
     Str(<<"4">>), Str(<<"1", "0", "0", "0", "0">>),
     Str(<<"1", "0", "0", "0", "1">>), Str(<<"1", ".", "5">>),
     Str(<<"a", "b", "c">>), Str(<<" ", "4", "2", " ">>)}
Numbers ==
    {IntNum(0), IntNum(1), IntNum(3), IntNum(4), IntNum(10000), IntNum(10001),
     IntNum(-1), Num(3, 2)}

Samples(key) ==
    CASE key = "amount" -> Numbers \cup NumericStrings \cup {Null, Bool(TRUE)}
      [] key = "version" -> Numbers \cup NumericStrings \cup {Null}
      [] key = "currency" ->
            {Str(UAH), Str(USD), Str(EUR), Str(<<"G", "B", "P">>), Null}
      [] key = "action" ->
            {Str(PAY), Str(HOLD), Str(SUBSCRIBE), Str(PAYDONATE),
             Str(<<"r", "e", "f", "u", "n", "d">>)}
      [] key = "subscribe_periodicity" ->
            {Str(DAY), Str(MONTH), Str(YEAR), Str(<<"w", "e", "e", "k">>)}
      [] key = "language" -> {Str(UK), Str(EN), Str(<<"d", "e">>)}
      [] key = "public_key" -> {ConfiguredKey, WrongKey, Str(<<>>)}
      [] key = "description" ->
            {Str(Filler(0)), Str(Filler(ShortStringMin)),
             Str(Filler(ShortStringMax)), Str(Filler(ShortStringMax + 1)),
             IntNum(1)}
      [] key = "subscribe_date_start" -> {OtherDateStart}
      [] key = "result_url" -> {OtherResultUrl}
      [] key = "order_id" -> {OrderId}

\* the keys a caller may supply: those of the shape, and one outside it
InputKeys == {CNBKeys[i] : i \in 1..Len(CNBKeys)} \cup {"order_id"}

ReadmeExamples ==
    {[amount |-> IntNum(100), currency |-> Str(UAH), action |-> Str(PAY),
      description |-> Str(<<"O", "r", "d", "e", "r", " ", "#", "1", "2", "3">>)],
     [amount |-> IntNum(500), currency |-> Str(EUR),
      action |-> Str(SUBSCRIBE), subscribe_periodicity |-> Str(MONTH)],
     [action |-> Str(SUBSCRIBE), amount |-> IntNum(100),
      subscribe_periodicity |-> Str(MONTH),
      subscribe_date_start |-> Str(DefaultDateStart)]}

\* every key supplied with a valid value, the numeric ones as strings
AllSupplied ==
    [amount |-> Str(<<"2", "5", "0">>), currency |-> Str(USD), action |-> Str(HOLD),
     subscribe_periodicity |-> Str(YEAR), public_key |-> ConfiguredKey,
     version |-> Str(<<"1">>), description |-> Str(Filler(ShortStringMax)),
     language |-> Str(EN),
     subscribe_date_start |-> OtherDateStart,
     result_url |-> OtherResultUrl,
     order_id |-> OrderId]

Examples == ReadmeExamples \cup {AllSupplied}

\* the object literal {}
EmptyObject == <<>>

\* process.env as the deployment sets it: nothing set, or all three set
Envs ==
    {[LIQPAY_PUBLIC_KEY |-> Undefined, LIQPAY_PRIVATE_KEY |-> Undefined,
      URL |-> Undefined],
     [LIQPAY_PUBLIC_KEY |-> ConfiguredKey,
      LIQPAY_PRIVATE_KEY |-> Str(<<"p", "r", "i", "v", "_", "k", "e", "y">>),
      URL |-> Str(<<"h", "t", "t", "p", "s", ":", "/", "/", "s", "o", "u", "l",
                    "f", "u", "l", ".", "e", "x", "a", "m", "p", "l", "e">>)]}

----------------------------------------------------------------------------
(* The pipeline of index.ts (getVerifiedData, getCNBObject, getForm, api): *)
(* the params are validated against CNBSchema, the validated object is     *)
(* serialized, encoded and signed, and the pair is returned, rendered into *)
(* a form or posted to the gateway.                                        *)

None == [t |-> "none"]

\* JSON.stringify, base64 and the SHA-1 digest, kept symbolic
JsonStringify(obj) == [fn |-> "json", of |-> obj]
Base64(x) == [fn |-> "base64", of |-> x]
Sha1(x) == [fn |-> "sha1", of |-> x]

EncodeData(request_) == Base64(JsonStringify(request_))
SignData(privateKey, d) == Base64(Sha1(<<privateKey, d, privateKey>>))

Init ==
    /\ env \in Envs
    /\ pc = "idle"
    /\ params = EmptyObject
    /\ parsed = None
    /\ error = "none"
    /\ data = None
    /\ signature = None
    /\ request = None

\* the caller sets one more key of the params it is assembling
Supply(k, v) ==
    /\ pc = "idle"
    /\ k \notin DOMAIN params
    /\ Cardinality(DOMAIN params) < MaxSupplied
    /\ params' = params @@ (k :> v)
    /\ UNCHANGED <<env, pc, parsed, error, data, signature, request>>

\* the caller takes the params of one of the examples
UseExample(p) ==
    /\ pc = "idle"
    /\ params = EmptyObject
    /\ params' = p
    /\ UNCHANGED <<env, pc, parsed, error, data, signature, request>>

\* the caller invokes one of the entry points with the params
Call ==
    /\ pc = "idle"
    /\ pc' = "validating"
    /\ UNCHANGED <<env, params, parsed, error, data, signature, request>>

\* mutant: the result of the validation is not looked at
Validate_NoThrow ==
    /\ pc = "validating"
    /\ parsed' = CNBSchema(env, params)
    /\ pc' = "validated"
    /\ UNCHANGED <<env, params, error, data, signature, request>>

\* CNBSchema.parse(params): a ZodError is thrown when it fails
Validate ==
    /\ pc = "validating"
    /\ parsed' = CNBSchema(env, params)
    /\ IF parsed'.success
       THEN pc' = "validated" /\ error' = error
       ELSE pc' = "failed" /\ error' = "ZodError"
    /\ UNCHANGED <<env, params, data, signature, request>>

\* data and signature are derived from the validated object
Sign ==
    /\ pc = "validated"
    /\ IF env.LIQPAY_PRIVATE_KEY \in {Undefined, Str(<<>>)}
       THEN /\ pc' = "failed"
            /\ error' = "MissingCredentialError"
            /\ UNCHANGED <<data, signature>>
       ELSE /\ pc' = "signed"
            /\ data' = EncodeData(parsed.data)
            /\ signature' = SignData(env.LIQPAY_PRIVATE_KEY, data')
            /\ error' = error
    /\ UNCHANGED <<env, params, parsed, request>>

\* api: the pair is posted to the gateway
SendRequest ==
    /\ pc = "signed"
    /\ pc' = "sent"
    /\ request' = [data |-> data, signature |-> signature]
    /\ UNCHANGED <<env, params, parsed, error, data, signature>>

\* getForm: the pair is embedded in the form's hidden fields
RenderForm ==
    /\ pc = "signed"
    /\ pc' = "rendered"
    /\ UNCHANGED <<env, params, parsed, error, data, signature, request>>

\* the call returns (or throws) and the next call starts afresh
Return ==
    /\ pc \in {"signed", "sent", "rendered", "failed", "userValidated"}
    /\ pc' = "idle"
    /\ params' = EmptyObject
    /\ parsed' = None
    /\ error' = "none"
    /\ data' = None
    /\ signature' = None
    /\ request' = None
    /\ UNCHANGED env

\* the caller passes the params a call returned to the next call
Revalidate ==
    /\ pc = "signed"
    /\ pc' = "validating"
    /\ params' = parsed.data
    /\ parsed' = None
    /\ data' = None
    /\ signature' = None
    /\ UNCHANGED <<env, error, request>>

\* the caller validates the params against UserCNBSchema alone
ValidateUser ==
    /\ pc = "idle"
    /\ pc' = "userValidated"
    /\ parsed' = UserCNBSchema(env, params)
    /\ UNCHANGED <<env, params, error, data, signature, request>>

Next ==
    \/ \E k \in InputKeys : \E v \in Samples(k) : Supply(k, v)
    \/ \E p \in Examples : UseExample(p)
    \/ Call
    \/ Validate
    \/ Sign
    \/ SendRequest
    \/ RenderForm
    \/ Return
    \/ Revalidate
    \/ ValidateUser

Spec == Init /\ [][Next]_vars

----------------------------------------------------------------------------
(* What the properties below speak about *)

UserKeySet == {UserKeys[i] : i \in 1..Len(UserKeys)}
CNBKeySet == {CNBKeys[i] : i \in 1..Len(CNBKeys)}

\* parsed holds CNBSchema's, or UserCNBSchema's, result for params
ParsedByCNB == pc \in {"validated", "signed", "sent", "rendered", "failed"}
ParsedByUser == pc = "userValidated"
Parsed == ParsedByCNB \/ ParsedByUser
SchemaKeys == IF ParsedByUser THEN UserKeySet ELSE CNBKeySet

Raw(key) == Get(params, key)
Supplied(key) == Raw(key) # Undefined

\* the codes of the issues a result reports under a key's path
IssueCodes(result, key) ==
    {result.issues[i].code :
        i \in {j \in 1..Len(result.issues) : result.issues[j].path = key}}
Rejected(key) == IssueCodes(parsed, key) # {}

\* the numeric value of a number or of a string
NumericValue(raw) == IF raw.t = "string" THEN StringToNumber(raw.s) ELSE raw
IsIntegerIn(raw, lo, hi) ==
    /\ raw.t \in {"number", "string"}
    /\ LET n == NumericValue(raw)
       IN ~n.nan /\ n.den = 1 /\ lo <= n.num /\ n.num <= hi

\* the data model of the specification: a key's documented constraint
DocValid(key, raw) ==
    CASE key = "amount" -> IsIntegerIn(raw, 1, 10000)
      [] key = "version" -> IsIntegerIn(raw, 1, 3)
      [] key = "currency" ->
            raw.t = "string" /\ raw.s \in {<<"U", "A", "H">>, <<"U", "S", "D">>, <<"E", "U", "R">>}
      [] key = "action" ->
            raw.t = "string" /\ raw.s \in
                {<<"p", "a", "y">>, <<"h", "o", "l", "d">>,
                 <<"s", "u", "b", "s", "c", "r", "i", "b", "e">>,
                 <<"p", "a", "y", "d", "o", "n", "a", "t", "e">>}
      [] key = "subscribe_periodicity" ->
            raw.t = "string" /\ raw.s \in
                {<<"d", "a", "y">>, <<"m", "o", "n", "t", "h">>,
                 <<"y", "e", "a", "r">>}
      [] key = "language" -> raw.t = "string" /\ raw.s \in {<<"u", "k">>, <<"e", "n">>}
      [] key = "public_key" -> raw = LIQPAY_PUBLIC_KEY(env)
      [] key = "description" ->
            raw.t = "string" /\ 1 <= Len(raw.s) /\ Len(raw.s) <= 200
      [] key \in {"subscribe_date_start", "result_url"} -> raw.t = "string"

\* the data model of the specification: a key's documented default
DocDefault(key) ==
    CASE key = "amount" -> IntNum(20)
      [] key = "version" -> IntNum(3)
      [] key = "currency" -> Str(<<"U", "A", "H">>)
      [] key = "action" -> Str(<<"p", "a", "y">>)
      [] key = "subscribe_periodicity" -> Str(<<"m", "o", "n", "t", "h">>)
      [] key = "language" -> Str(<<"u", "k">>)
      [] key = "public_key" -> LIQPAY_PUBLIC_KEY(env)
      [] key = "description" -> Str(DefaultDescription)
      [] key = "subscribe_date_start" ->
            Str(<<"2", "0", "2", "4", "-", "0", "1", "-", "0", "1", " ",
                  "0", "0", ":", "0", "0", ":", "0", "0">>)
      [] key = "result_url" ->
            Str((IF env.URL = Undefined
                 THEN <<"u", "n", "d", "e", "f", "i", "n", "e", "d">>
                 ELSE env.URL.s)
                \o <<"/", "d", "o", "n", "a", "t", "e", "/",
                     "t", "h", "a", "n", "k", "y", "o", "u">>)

\* the value a key of the output must hold
Expected(key) ==
    IF ~Supplied(key) THEN DocDefault(key)
    ELSE IF key \in {"amount", "version"} THEN NumericValue(Raw(key))
    ELSE Raw(key)

OmittedOrValid(keys) ==
    \A k \in keys : ~Supplied(k) \/ DocValid(k, Raw(k))

----------------------------------------------------------------------------
(* C1: an amount given as an integer number, or as a numeric string whose  *)
(* value is an integer, in [1, 10000] is never rejected, by CNBSchema or   *)
(* by UserCNBSchema; with every other field omitted or valid, validation   *)
(* succeeds and the output amount is a number equal to that value.         *)
C1_AmountInRangeAccepted ==
    (Parsed /\ Supplied("amount") /\ IsIntegerIn(Raw("amount"), 1, 10000)) =>
        /\ ~Rejected("amount")
        /\ OmittedOrValid(SchemaKeys) =>
              /\ parsed.success
              /\ parsed.data.amount.t = "number"
              /\ parsed.data.amount = NumericValue(Raw("amount"))
              /\ parsed.data.amount.den = 1
              /\ parsed.data.amount.num \in 1..10000

C1_Witness ==
    /\ pc = "validated"
    /\ Raw("amount") = Str(<<"1", "0", "0", "0", "0">>)
    /\ parsed.success
    /\ parsed.data.amount =
          [t |-> "number", nan |-> FALSE, num |-> 10000, den |-> 1]

(* C2: a supplied amount that is not an integer in [1, 10000] (a number    *)
(* out of range, 0, a negative or non-integer number, a string that is no  *)
(* number or whose value is out of range, null, a boolean) makes the whole *)
(* validation fail: no object is produced and an issue names amount.       *)
C2_AmountOutOfRangeRejected ==
    (Parsed /\ Supplied("amount") /\ ~IsIntegerIn(Raw("amount"), 1, 10000)) =>
        /\ ~parsed.success
        /\ parsed.data = Undefined
        /\ Rejected("amount")

C2_Witness ==
    /\ pc = "failed"
    /\ Raw("amount") = [t |-> "number", nan |-> FALSE, num |-> 0, den |-> 1]
    /\ ~parsed.success
    /\ \E i \in 1..Len(parsed.issues) : parsed.issues[i].path = "amount"

(* C3: when every field is omitted or valid, CNBSchema's validation        *)
(* succeeds, every omitted field holds its documented default and every    *)
(* supplied field its normalized value; the empty object yields exactly    *)
(* the ten documented defaults.                                            *)
C3_DefaultsApplied ==
    (ParsedByCNB /\ OmittedOrValid(CNBKeySet)) =>
        /\ parsed.success
        /\ parsed.data = [k \in CNBKeySet |-> Expected(k)]
        /\ DOMAIN params = {} =>
              parsed.data = [k \in CNBKeySet |-> DocDefault(k)]

C3_Witness ==
    /\ pc = "validated"
    /\ DOMAIN params = {}
    /\ parsed.success
    /\ parsed.data.amount = IntNum(20)
    /\ parsed.data.version = IntNum(3)
    /\ parsed.data.currency = Str(<<"U", "A", "H">>)
    /\ parsed.data.description = Str(DefaultDescription)
    /\ Len(parsed.data.description.s) = 24

(* C4: for each enum field, every member of its closed set is accepted and *)
(* every other string is rejected with an issue naming that field,         *)
(* whatever the other fields hold.                                         *)
EnumKeys == {"currency", "action", "subscribe_periodicity", "language"}

C4_EnumMembership ==
    Parsed =>
        \A k \in EnumKeys \cap SchemaKeys :
            (Supplied(k) /\ Raw(k).t = "string") =>
                /\ DocValid(k, Raw(k)) => ~Rejected(k)
                /\ ~DocValid(k, Raw(k)) => (Rejected(k) /\ ~parsed.success)

C4_Witness ==
    /\ pc = "failed"
    /\ Raw("currency") = Str(<<"G", "B", "P">>)
    /\ Raw("action") = Str(<<"h", "o", "l", "d">>)
    /\ IssueCodes(parsed, "currency") # {}
    /\ IssueCodes(parsed, "action") = {}

(* C5: an omitted public_key is filled with the configured key and         *)
(* accepted; a supplied one is accepted exactly when it equals the         *)
(* configured key, and any other makes the validation fail with an issue   *)
(* naming public_key; every validated object holds the configured key.     *)
C5_PublicKeyMatchesConfigured ==
    ParsedByCNB =>
        /\ ~Supplied("public_key") => ~Rejected("public_key")
        /\ Supplied("public_key") =>
              (Raw("public_key") = LIQPAY_PUBLIC_KEY(env)
                  <=> ~Rejected("public_key"))
        /\ Rejected("public_key") =>
              (~parsed.success /\ IssueCodes(parsed, "public_key") = {"custom"})
        /\ parsed.success => parsed.data.public_key = LIQPAY_PUBLIC_KEY(env)

C5_Witness ==
    /\ pc = "failed"
    /\ Raw("public_key") = Str(<<"w", "r", "o", "n", "g", "-", "k", "e", "y">>)
    /\ env.LIQPAY_PUBLIC_KEY = Str(<<"p", "u", "b", "_", "k", "e", "y">>)
    /\ IssueCodes(parsed, "public_key") = {"custom"}

(* C6: a supplied version is accepted exactly when it is an integer        *)
(* number, or a string that converts to one, in [1, 3]; the output version *)
(* is then that number, and any other version makes the validation fail    *)
(* with an issue naming version.                                           *)
C6_VersionRange ==
    (ParsedByCNB /\ Supplied("version")) =>
        /\ IsIntegerIn(Raw("version"), 1, 3) <=> ~Rejected("version")
        /\ Rejected("version") => ~parsed.success
        /\ parsed.success =>
              /\ parsed.data.version.t = "number"
              /\ parsed.data.version = NumericValue(Raw("version"))

C6_Witness ==
    /\ pc = "failed"
    /\ Raw("version") = Str(<<"4">>)
    /\ IssueCodes(parsed, "version") # {}

(* C7: a supplied description is accepted exactly when it is a string of   *)
(* 1 to 200 code units; the empty string is rejected as too small and a    *)
(* string of 201 or more as too big, under the path description.           *)
C7_DescriptionLength ==
    (ParsedByCNB /\ Supplied("description")) =>
        LET raw == Raw("description")
            codes == IssueCodes(parsed, "description")
        IN /\ (raw.t = "string" /\ Len(raw.s) \in 1..200) <=> codes = {}
           /\ codes # {} => ~parsed.success
           /\ (raw.t = "string" /\ Len(raw.s) < 1) => codes = {"too_small"}
           /\ (raw.t = "string" /\ Len(raw.s) > 200) => codes = {"too_big"}
           /\ raw.t # "string" => codes = {"invalid_type"}

C7_Witness ==
    /\ pc = "failed"
    /\ Raw("description").t = "string"
    /\ Len(Raw("description").s) = 201
    /\ IssueCodes(parsed, "description") = {"too_big"}

(* C8 as stated: on a numeric field, a string that cannot be converted to  *)
(* a number, or a value that is neither string nor number, is reported    *)
(* with a kind of error different from the kind reported for a value of   *)
(* the right type that is out of range (such as 0).                        *)
NumericKeys == {"amount", "version"}
NotConvertible(raw) ==
    \/ raw.t \notin {"string", "number"}
    \/ raw.t = "string" /\ StringToNumber(raw.s).nan
\* the kinds reported under key for the out-of-range value 0
OutOfRangeCodes(key) == IssueCodes(CNBSchema(env, key :> IntNum(0)), key)

C9_ValidationBeforeSigning ==
    /\ (data # None \/ signature # None \/ request # None
            \/ pc \in {"signed", "sent", "rendered"}) =>
          /\ parsed # None
          /\ parsed.success
          /\ parsed = CNBSchema(env, params)
          /\ data = EncodeData(parsed.data)
          /\ signature = SignData(env.LIQPAY_PRIVATE_KEY, data)
    /\ request # None => request = [data |-> data, signature |-> signature]
    /\ (pc = "failed" /\ error = "ZodError") =>
          /\ ~parsed.success
          /\ data = None /\ signature = None /\ request = None
    /\ pc \in {"idle", "validating"} =>
          data = None /\ signature = None /\ request = None

C9_Witness ==
    /\ pc = "sent"
    /\ parsed.success
    /\ request = [data |-> EncodeData(parsed.data),
                  signature |-> SignData(env.LIQPAY_PRIVATE_KEY,
                                         EncodeData(parsed.data))]

(* C10: validating a validated object again succeeds and returns the same  *)
(* ten values, and a validated object holds exactly the ten declared keys, *)
(* whatever other keys the input carried.                                  *)
C10_Idempotent ==
    (ParsedByCNB /\ parsed.success) =>
        /\ DOMAIN parsed.data = CNBKeySet
        /\ CNBSchema(env, parsed.data).success
        /\ CNBSchema(env, parsed.data).data = parsed.data
        /\ DOMAIN params = CNBKeySet /\ OmittedOrValid(CNBKeySet)
              /\ params.amount.t = "number" /\ params.version.t = "number"
              => parsed.data = params

C10_Witness ==
    /\ pc = "validated"
    /\ DOMAIN params = CNBKeySet
    /\ params.amount = IntNum(1)
    /\ params.description = Str(DefaultDescription)
    /\ parsed.success
    /\ parsed.data = params

C10_WitnessExtraKey ==
    /\ pc = "validated"
    /\ "order_id" \in DOMAIN params
    /\ "order_id" \notin DOMAIN parsed.data

============================================================================
